---- MODULE Spec2Model ----
(***************************************************************************)
(* Model of the request-execution layer of the Home Assistant MCP server   *)
(* (class HomeAssistantServer): the fixed-window rate limiter              *)
(* checkRateLimit, the bounded retry wrapper withRetry, and the control    *)
(* flow of the tool handlers that use them.                                *)
(*                                                                         *)
(* A tool invocation is executed instruction by instruction.  The          *)
(* arguments of an invocation are abstracted by the first validation       *)
(* check they fail (badAt, 0 when they pass every check); the remote       *)
(* answers every HTTP request with success or with status 400, 404 or 500. *)
(* One invocation is in flight at a time, except in SpecTasks.             *)
(*                                                                         *)
(* Spec runs the handlers with the limiter and the retries; the outcome of *)
(* createTodoListViaWebSocket is there a resolved or a rejected promise.   *)
(* SpecData follows the arguments of an invocation into its requests.      *)
(* SpecWs runs one WebSocket session event by event, SpecPair two sessions *)
(* open at once.  SpecTasks runs several invocations at once, each from    *)
(* one await to the next.  SpecText applies sanitizeInput and              *)
(* validateEntityId to strings.                                            *)
(***************************************************************************)
EXTENDS Integers, Sequences, FiniteSets, TLC

\* ---------------------------------------------------------------- bounds
MaxTime == 2          \* the clock Date.now() ranges over 0..MaxTime
MaxWindow == 2        \* config.rateLimitWindow ranges over 1..MaxWindow
MaxRateMax == 2       \* config.rateLimitMax ranges over 1..MaxRateMax
MaxAttempts == 2      \* config.retryAttempts ranges over 1..MaxAttempts
MaxInbound == 4       \* inbound WebSocket messages of one session
MaxPairInbound == 3   \* inbound messages of two sessions open at once, together
MaxTasks == 2         \* tool invocations in flight at once
MaxLen == 4           \* characters of an input string of sanitizeInput and validateEntityId

\* ------------------------------------------------------------ error values
\* cls "mcp" is McpError, cls "axios" an AxiosError with a response status.
\* origin tells who raised it; n is the withRetry attempt that raised it.
Err(cls, code, origin, status, n) ==
  [cls |-> cls, code |-> code, origin |-> origin, status |-> status, n |-> n]

NoErr == Err("none", "none", "none", 0, 0)

RateLimitExceeded == Err("mcp", "InternalError", "ratelimit", 0, 0)

InvalidParams(origin) == Err("mcp", "InvalidParams", origin, 0, 0)

InternalError(origin) == Err("mcp", "InternalError", origin, 0, 0)

AxiosError(status, n) == Err("axios", "none", "remote", status, n)

\* the answers of the remote: 200 is success, the others make axios throw
Statuses == {200, 400, 404, 500}

\* ------------------------------------------------------------ rate limiter
NoEntry == [count |-> 0, resetTime |-> -1]   \* rateLimitMap.get() = undefined

NoCall == [t |-> -1, before |-> NoEntry, ok |-> FALSE, replaced |-> FALSE, n |-> 0]

\* checkRateLimit with the limit test off by one (count > max)
checkRateLimitOffByOne(e, t, max, window) ==
  IF e = NoEntry \/ t > e.resetTime
  THEN [ok |-> TRUE, entry |-> [count |-> 1, resetTime |-> t + window],
        replaced |-> TRUE]
  ELSE IF e.count > max
  THEN [ok |-> FALSE, entry |-> e, replaced |-> FALSE]
  ELSE [ok |-> TRUE, entry |-> [e EXCEPT !.count = e.count + 1],
        replaced |-> FALSE]

\* checkRateLimit replacing the entry already at resetTime (now >= resetTime)
checkRateLimitAtReset(e, t, max, window) ==
  IF e = NoEntry \/ t >= e.resetTime
  THEN [ok |-> TRUE, entry |-> [count |-> 1, resetTime |-> t + window],
        replaced |-> TRUE]
  ELSE IF e.count >= max
  THEN [ok |-> FALSE, entry |-> e, replaced |-> FALSE]
  ELSE [ok |-> TRUE, entry |-> [e EXCEPT !.count = e.count + 1],
        replaced |-> FALSE]

\* checkRateLimit at time t with stored entry e: the value returned (ok) and
\* the entry stored under the key afterwards
checkRateLimit(e, t, max, window) ==
  IF e = NoEntry \/ t > e.resetTime
  THEN [ok |-> TRUE, entry |-> [count |-> 1, resetTime |-> t + window],
        replaced |-> TRUE]
  ELSE IF e.count >= max
  THEN [ok |-> FALSE, entry |-> e, replaced |-> FALSE]
  ELSE [ok |-> TRUE, entry |-> [e EXCEPT !.count = e.count + 1],
        replaced |-> FALSE]

\* ------------------------------------------------------------ instructions
\* One instruction of a handler.  try is the stack of enclosing catch
\* clauses, innermost first; each entry names the clause (c) and the
\* instruction at which the handler continues when the clause swallows the
\* error (to, 0 when the clause has no such continuation).
Ins(op, try, alt) == [op |-> op, try |-> try, alt |-> alt]

T(c, to) == [c |-> c, to |-> to]

RL == Ins("rl", <<>>, {})            \* if (!this.checkRateLimit()) throw ...

Val(try) == Ins("val", try, {})      \* an argument check that throws InvalidParams

Fail(try) == Ins("fail", try, {})    \* a branch that always throws InvalidParams

Req(try) == Ins("req", try, {})      \* await this.withRetry(() => this.haClient.x(...))

Raw(try) == Ins("raw", try, {})      \* await this.haClient.x(...) without withRetry

Par(try) == Ins("par", try, {})      \* await Promise.all([withRetry(..), withRetry(..)])

Ws(try) == Ins("ws", try, {})        \* await this.createTodoListViaWebSocket(name)

Alt(targets) == Ins("alt", <<>>, targets)  \* branch decided by response data

Ret == Ins("ret", <<>>, {})          \* return { content: [...] }

\* ------------------------------------------------------------ catch clauses
Throw(e) == [act |-> "throw", err |-> e]

Continue == [act |-> "goto", err |-> NoErr]

IsAxios(e, status) == e.cls = "axios" /\ e.status = status

\* activateScene: catch around the existence check
CatchSceneCheck(e) ==
  IF IsAxios(e, 404) THEN Throw(InvalidParams("remote")) ELSE Throw(e)

\* sendNotification: fall back to notify.notify on 400 unless already there
CatchSendNotification(e, to) ==
  IF IsAxios(e, 400) /\ to # 0 THEN Continue ELSE Throw(e)

\* listNotifyServices: return the common services
CatchListNotifyServices(e) == Continue

\* getSensorData: history_error is set and the result returned
CatchHistory(e) == Continue

\* getSystemInfo: supervisor not available
CatchSupervisor(e) == Continue

\* getSystemInfo: addon information not available
CatchAddon(e) == Continue

\* getSystemInfo: outer catch
CatchSystemInfo(e) == Throw(InternalError("wrap"))

\* callService
CatchCallService(e) ==
  IF IsAxios(e, 400) \/ IsAxios(e, 404) THEN Throw(InvalidParams("remote"))
  ELSE Throw(e)

\* listServices
CatchListServices(e) ==
  IF e.cls = "mcp" THEN Throw(e) ELSE Throw(InternalError("wrap"))

\* renderTemplate
CatchRenderTemplate(e) ==
  IF IsAxios(e, 400) THEN Throw(InvalidParams("remote"))
  ELSE Throw(InternalError("wrap"))

\* getEvents
CatchGetEvents(e) == Throw(InternalError("wrap"))

\* fireEvent
CatchFireEvent(e) ==
  IF IsAxios(e, 400) THEN Throw(InvalidParams("remote"))
  ELSE Throw(InternalError("wrap"))

\* backupManagement: outer catch
CatchBackupManagement(e) ==
  IF IsAxios(e, 404) \/ IsAxios(e, 400) THEN Throw(InvalidParams("remote"))
  ELSE Throw(InternalError("wrap"))

\* manageTodoLists: outer catch
CatchManageTodoLists(e) ==
  IF IsAxios(e, 404) \/ IsAxios(e, 400) THEN Throw(InvalidParams("remote"))
  ELSE Throw(InternalError("wrap"))

\* manageTodoLists get_items: the direct endpoint failed, try the service
CatchGetItemsDirect(e) == Continue

\* manageTodoLists get_items: both methods failed
CatchGetItemsService(e) == Throw(InternalError("wrap"))

\* manageTodoLists update_item / remove_item
CatchTodoItemOp(e) == Throw(InternalError("wrap"))

\* manageShoppingList: outer catch
CatchManageShoppingList(e) ==
  IF IsAxios(e, 404) \/ IsAxios(e, 400) THEN Throw(InvalidParams("remote"))
  ELSE Throw(InternalError("wrap"))

\* manageShoppingList / findShoppingListItemByName: try the next approach
CatchFallback(e) == Continue

\* findShoppingListItemByName: outer catch, return null
CatchFindNull(e) == Continue

Catch(c, e, to) ==
  CASE c = "sceneCheck" -> CatchSceneCheck(e)
    [] c = "sendNotification" -> CatchSendNotification(e, to)
    [] c = "listNotifyServices" -> CatchListNotifyServices(e)
    [] c = "history" -> CatchHistory(e)
    [] c = "supervisor" -> CatchSupervisor(e)
    [] c = "addon" -> CatchAddon(e)
    [] c = "systemInfo" -> CatchSystemInfo(e)
    [] c = "callService" -> CatchCallService(e)
    [] c = "listServices" -> CatchListServices(e)
    [] c = "renderTemplate" -> CatchRenderTemplate(e)
    [] c = "getEvents" -> CatchGetEvents(e)
    [] c = "fireEvent" -> CatchFireEvent(e)
    [] c = "backupManagement" -> CatchBackupManagement(e)
    [] c = "manageTodoLists" -> CatchManageTodoLists(e)
    [] c = "getItemsDirect" -> CatchGetItemsDirect(e)
    [] c = "getItemsService" -> CatchGetItemsService(e)
    [] c = "todoItemOp" -> CatchTodoItemOp(e)
    [] c = "manageShoppingList" -> CatchManageShoppingList(e)
    [] c = "fallback" -> CatchFallback(e)
    [] c = "findNull" -> CatchFindNull(e)

\* CallToolRequestSchema handler: axios errors become McpError InternalError
DispatchCatch(e) ==
  IF e.cls = "axios" THEN InternalError("dispatch") ELSE e

\* An error e raised under the catch stack: the clauses are applied innermost
\* first until one swallows the error or the stack is used up.
RECURSIVE Unwind(_, _)
Unwind(e, stack) ==
  IF stack = <<>> THEN [act |-> "throw", err |-> DispatchCatch(e), pc |-> 0]
  ELSE LET h == Head(stack)
           r == Catch(h.c, e, h.to)
       IN IF r.act = "goto" THEN [act |-> "goto", err |-> e, pc |-> h.to]
          ELSE Unwind(r.err, Tail(stack))

\* ------------------------------------------------------------ tool handlers
\* Each handler is the sequence of its instructions; a handler with several
\* actions or argument shapes has one sequence per shape.

\* getEntityState checking its arguments before the rate limit
getEntityStateValidatesFirst == <<Val(<<>>), Val(<<>>), RL, Req(<<>>), Ret>>

getEntityState == <<RL, Val(<<>>), Val(<<>>), Req(<<>>), Ret>>

toggleEntity == <<RL, Val(<<>>), Val(<<>>), Val(<<>>), Req(<<>>), Ret>>

triggerAutomation == <<RL, Val(<<>>), Val(<<>>), Req(<<>>), Ret>>

runScript == <<RL, Val(<<>>), Val(<<>>), Req(<<>>), Ret>>

\* listEntities fetching the states before the rate limit is checked
listEntitiesFetchesFirst == <<Req(<<>>), RL, Ret>>

\* without a domain filter
listEntities == <<RL, Req(<<>>), Ret>>

\* with args.domain: the domain is checked after the states were fetched
listEntitiesDomain == <<RL, Req(<<>>), Val(<<>>), Ret>>

\* the same checks and one service call for state off and state on
controlLight ==
  <<RL, Val(<<>>), Val(<<>>), Val(<<>>), Val(<<>>), Val(<<>>), Val(<<>>),
    Val(<<>>), Req(<<>>), Ret>>

sendRemoteCommand == <<RL, Val(<<>>), Val(<<>>), Val(<<>>), Req(<<>>), Ret>>

launchApp == <<RL, Val(<<>>), Val(<<>>), Req(<<>>), Ret>>

openStreamingApp == <<RL, Val(<<>>), Val(<<>>), Val(<<>>), Req(<<>>), Ret>>

activateScene ==
  <<RL, Val(<<>>), Val(<<>>), Raw(<<T("sceneCheck", 0)>>), Req(<<>>), Ret>>

\* listScenes returning an empty list when the fetch failed
listScenesSwallows == <<RL, Req(<<T("fallback", 3)>>), Ret>>

listScenes == <<RL, Req(<<>>), Ret>>

controlMediaPlayer == <<RL, Val(<<>>), Val(<<>>), Val(<<>>), Req(<<>>), Ret>>

getMediaPlayerState == <<RL, Val(<<>>), Val(<<>>), Req(<<>>), Ret>>

\* service 'notify' (the default): no fallback
sendNotification ==
  <<RL, Val(<<>>), Val(<<>>), Req(<<T("sendNotification", 0)>>), Ret>>

\* another service: on 400 the base notify service is tried
sendNotificationService ==
  <<RL, Val(<<>>), Val(<<>>), Req(<<T("sendNotification", 6)>>), Ret,
    Req(<<>>), Ret>>

listNotifyServices == <<RL, Req(<<T("listNotifyServices", 4)>>), Ret, Ret>>

getSensorData == <<RL, Val(<<>>), Val(<<>>), Val(<<>>), Req(<<>>), Ret>>

\* with args.include_history
getSensorDataHistory ==
  <<RL, Val(<<>>), Val(<<>>), Val(<<>>), Req(<<>>),
    Req(<<T("history", 7)>>), Ret>>

listSensors == <<RL, Req(<<>>), Ret>>

\* required, name format, target entity ids, deny-list, then the call
callService ==
  <<RL, Val(<<>>), Val(<<>>), Val(<<>>), Val(<<>>),
    Req(<<T("callService", 0)>>), Ret>>

listServices == <<RL, Req(<<T("listServices", 0)>>), Ret>>

\* with args.domain: 'Domain not found' is raised after the fetch
listServicesDomain ==
  <<RL, Req(<<T("listServices", 0)>>), Val(<<T("listServices", 0)>>), Ret>>

renderTemplate ==
  <<RL, Val(<<>>), Val(<<>>), Val(<<>>), Val(<<>>),
    Req(<<T("renderTemplate", 0)>>), Ret>>

getEvents == <<RL, Req(<<T("getEvents", 0)>>), Ret>>

fireEvent ==
  <<RL, Val(<<>>), Val(<<>>), Val(<<>>), Val(<<>>),
    Req(<<T("fireEvent", 0)>>), Ret>>

\* actions list and create
backupManagement ==
  <<RL, Val(<<>>), Req(<<T("backupManagement", 0)>>), Ret>>

\* actions download_info, restore_info and delete
backupManagementId ==
  <<RL, Val(<<>>), Val(<<T("backupManagement", 0)>>),
    Req(<<T("backupManagement", 0)>>), Ret>>

\* any other action
backupManagementDefault ==
  <<RL, Val(<<>>), Fail(<<T("backupManagement", 0)>>)>>

getSystemInfo ==
  <<RL, Par(<<T("systemInfo", 0)>>),
    Req(<<T("supervisor", 4), T("systemInfo", 0)>>), Ret>>

\* with args.include_addons
getSystemInfoAddons ==
  <<RL, Par(<<T("systemInfo", 0)>>),
    Req(<<T("supervisor", 5), T("systemInfo", 0)>>),
    Req(<<T("addon", 5), T("supervisor", 5), T("systemInfo", 0)>>), Ret>>

manageTodoListsList ==
  <<RL, Val(<<>>), Req(<<T("manageTodoLists", 0)>>), Ret>>

manageTodoListsGetItems ==
  <<RL, Val(<<>>), Val(<<T("manageTodoLists", 0)>>),
    Val(<<T("manageTodoLists", 0)>>),
    Req(<<T("getItemsDirect", 7), T("manageTodoLists", 0)>>), Ret,
    Req(<<T("getItemsService", 0), T("manageTodoLists", 0)>>), Ret>>

manageTodoListsAddItem ==
  <<RL, Val(<<>>), Val(<<T("manageTodoLists", 0)>>),
    Val(<<T("manageTodoLists", 0)>>), Req(<<T("manageTodoLists", 0)>>), Ret>>

\* actions update_item and remove_item
manageTodoListsItemOp ==
  <<RL, Val(<<>>), Val(<<T("manageTodoLists", 0)>>),
    Val(<<T("manageTodoLists", 0)>>),
    Req(<<T("todoItemOp", 0), T("manageTodoLists", 0)>>), Ret>>

manageTodoListsCreateInfo ==
  <<RL, Val(<<>>), Val(<<T("manageTodoLists", 0)>>),
    Val(<<T("manageTodoLists", 0)>>), Ret>>

manageTodoListsCreateWs ==
  <<RL, Val(<<>>), Val(<<T("manageTodoLists", 0)>>),
    Val(<<T("manageTodoLists", 0)>>), Ws(<<T("manageTodoLists", 0)>>), Ret>>

manageTodoListsDefault ==
  <<RL, Val(<<>>), Fail(<<T("manageTodoLists", 0)>>)>>

manageShoppingListGet ==
  <<RL, Val(<<>>),
    Req(<<T("fallback", 5), T("manageShoppingList", 0)>>), Ret,
    Req(<<T("fallback", 7), T("manageShoppingList", 0)>>), Ret,
    Req(<<T("manageShoppingList", 0)>>), Ret>>

manageShoppingListAdd ==
  <<RL, Val(<<>>), Val(<<T("manageShoppingList", 0)>>),
    Req(<<T("fallback", 6), T("manageShoppingList", 0)>>), Ret,
    Req(<<T("manageShoppingList", 0)>>), Ret>>

\* update with item_id or id
manageShoppingListUpdate ==
  <<RL, Val(<<>>),
    Req(<<T("fallback", 5), T("manageShoppingList", 0)>>), Ret,
    Req(<<T("manageShoppingList", 0)>>), Ret>>

\* update with the item name only: findShoppingListItemByName (3..8), then
\* either no item was found (9) or the update proceeds (10..13)
manageShoppingListUpdateByName ==
  <<RL, Val(<<>>),
    Req(<<T("fallback", 5), T("findNull", 9), T("manageShoppingList", 0)>>),
    Alt({8}),
    Req(<<T("fallback", 7), T("findNull", 9), T("manageShoppingList", 0)>>),
    Alt({8}),
    Req(<<T("findNull", 9), T("manageShoppingList", 0)>>),
    Alt({9, 10}),
    Fail(<<T("manageShoppingList", 0)>>),
    Req(<<T("fallback", 12), T("manageShoppingList", 0)>>), Ret,
    Req(<<T("manageShoppingList", 0)>>), Ret>>

\* update or remove with neither an id nor an item name
manageShoppingListNoItem ==
  <<RL, Val(<<>>), Fail(<<T("manageShoppingList", 0)>>)>>

\* remove with the item name only: no id to fall back to
manageShoppingListRemoveByName ==
  <<RL, Val(<<>>),
    Req(<<T("fallback", 5), T("manageShoppingList", 0)>>), Ret,
    Fail(<<T("manageShoppingList", 0)>>)>>

\* remove with the item name and an id
manageShoppingListRemove ==
  <<RL, Val(<<>>),
    Req(<<T("fallback", 5), T("manageShoppingList", 0)>>), Ret,
    Req(<<T("manageShoppingList", 0)>>), Ret>>

\* remove with an id only: findShoppingListItemByName (3..7, result unused),
\* the todo service with the id (8), the direct API as fallback (10)
manageShoppingListRemoveById ==
  <<RL, Val(<<>>),
    Req(<<T("fallback", 5), T("findNull", 8), T("fallback", 10),
          T("manageShoppingList", 0)>>),
    Alt({8}),
    Req(<<T("fallback", 7), T("findNull", 8), T("fallback", 10),
          T("manageShoppingList", 0)>>),
    Alt({8}),
    Req(<<T("findNull", 8), T("fallback", 10), T("manageShoppingList", 0)>>),
    Req(<<T("fallback", 10), T("manageShoppingList", 0)>>), Ret,
    Req(<<T("manageShoppingList", 0)>>), Ret>>

manageShoppingListClear ==
  <<RL, Val(<<>>), Req(<<T("manageShoppingList", 0)>>), Ret>>

manageShoppingListDefault ==
  <<RL, Val(<<>>), Fail(<<T("manageShoppingList", 0)>>)>>

\* the switch of the CallToolRequestSchema handler
Handlers ==
  [ get_state |-> getEntityState,
    toggle_entity |-> toggleEntity,
    trigger_automation |-> triggerAutomation,
    run_script |-> runScript,
    list_entities |-> listEntities,
    list_entities_domain |-> listEntitiesDomain,
    control_light |-> controlLight,
    send_remote_command |-> sendRemoteCommand,
    launch_app |-> launchApp,
    open_streaming_app |-> openStreamingApp,
    activate_scene |-> activateScene,
    list_scenes |-> listScenes,
    control_media_player |-> controlMediaPlayer,
    get_media_player_state |-> getMediaPlayerState,
    send_notification |-> sendNotification,
    send_notification_service |-> sendNotificationService,
    list_notify_services |-> listNotifyServices,
    get_sensor_data |-> getSensorData,
    get_sensor_data_history |-> getSensorDataHistory,
    list_sensors |-> listSensors,
    call_service |-> callService,
    list_services |-> listServices,
    list_services_domain |-> listServicesDomain,
    render_template |-> renderTemplate,
    get_events |-> getEvents,
    fire_event |-> fireEvent,
    backup_management |-> backupManagement,
    backup_management_id |-> backupManagementId,
    backup_management_default |-> backupManagementDefault,
    system_info |-> getSystemInfo,
    system_info_addons |-> getSystemInfoAddons,
    todo_list |-> manageTodoListsList,
    todo_get_items |-> manageTodoListsGetItems,
    todo_add_item |-> manageTodoListsAddItem,
    todo_item_op |-> manageTodoListsItemOp,
    todo_create_list_info |-> manageTodoListsCreateInfo,
    todo_create_list_ws |-> manageTodoListsCreateWs,
    todo_default |-> manageTodoListsDefault,
    shopping_get |-> manageShoppingListGet,
    shopping_add |-> manageShoppingListAdd,
    shopping_update |-> manageShoppingListUpdate,
    shopping_update_by_name |-> manageShoppingListUpdateByName,
    shopping_no_item |-> manageShoppingListNoItem,
    shopping_remove_by_name |-> manageShoppingListRemoveByName,
    shopping_remove |-> manageShoppingListRemove,
    shopping_remove_by_id |-> manageShoppingListRemoveById,
    shopping_clear |-> manageShoppingListClear,
    shopping_default |-> manageShoppingListDefault ]

Tools == DOMAIN Handlers

\* the argument checks of a handler, by instruction index
ValAt(tool) == {k \in 1..Len(Handlers[tool]) : Handlers[tool][k].op = "val"}

\* ----------------------------------------------------- strings and requests
\* A string is the sequence of its characters; a run of lowercase letters
\* and underscores that is never split is written as one word.
Words ==
  {"homeassistant", "recorder", "system_log", "restart", "stop", "purge",
   "clear", "light", "kitchen", "todo", "shopping_list", "apples", "on",
   "off", "turn_", "turn_on", "api", "services", "states", "item",
   "update_item", "living_room", "automation", "morning_routine", "script"}

Digits == {"7"}

\* the characters of /[<>"'&]/
Stripped == {"<", ">", "\"", "'", "&"}

\* input.replace(/[<>"'&]/, ''): without the g flag the first match only
sanitizeInputFirstOnly(input) ==
  LET hits == {i \in 1..Len(input) : input[i] \in Stripped}
  IN IF hits = {} THEN input
     ELSE LET h == CHOOSE i \in hits : \A j \in hits : i <= j
          IN SubSeq(input, 1, h - 1) \o SubSeq(input, h + 1, Len(input))

\* input.replace(/[<>"'&]/g, '')
sanitizeInput(input) == SelectSeq(input, LAMBDA c : c \notin Stripped)

\* /[a-z_]+\.[a-z0-9_]+/.test(entityId): the pattern without its anchors
validateEntityIdUnanchored(entityId) ==
  \E k \in 2..(Len(entityId) - 1) :
    /\ entityId[k] = "."
    /\ entityId[k - 1] \in Words
    /\ entityId[k + 1] \in Words \cup Digits

\* /^[a-z_]+\.[a-z0-9_]+$/.test(entityId)
validateEntityId(entityId) ==
  \E k \in 2..(Len(entityId) - 1) :
    /\ entityId[k] = "."
    /\ \A i \in 1..(k - 1) : entityId[i] \in Words
    /\ \A i \in (k + 1)..Len(entityId) : entityId[i] \in Words \cup Digits

\* /^[a-z0-9_]+$/.test(name)
IsServiceName(name) ==
  /\ Len(name) > 0
  /\ \A i \in 1..Len(name) : name[i] \in Words \cup Digits

\* callService: const dangerousServices
dangerousServices ==
  {<<"homeassistant", ".", "restart">>, <<"homeassistant", ".", "stop">>,
   <<"recorder", ".", "purge">>, <<"system_log", ".", "clear">>}

\* a request handed to haClient: the URL as written by the handler and the
\* resource identifiers it carries in the URL path or as entity_id
Request(method, url, ids) == [method |-> method, url |-> url, ids |-> ids]

\* what a handler did with its arguments: the strings validateEntityId
\* accepted, the requests issued in order, and whether it threw before them
Handled(out, checked, reqs) == [out |-> out, checked |-> checked, reqs |-> reqs]

RECURSIVE Split(_, _, _)
Split(url, cur, acc) ==
  IF url = <<>> THEN Append(acc, cur)
  ELSE IF Head(url) = "/" THEN Split(Tail(url), <<>>, Append(acc, cur))
  ELSE Split(Tail(url), Append(cur, Head(url)), acc)

\* the path segments of a URL that starts with "/"
Segments(url) == Tail(Split(url, <<>>, <<>>))

\* the path after the HTTP client resolved its "." and ".." segments
RECURSIVE RemoveDotSegments(_, _)
RemoveDotSegments(segs, out) ==
  IF segs = <<>> THEN out
  ELSE IF Head(segs) = <<".", ".">>
  THEN RemoveDotSegments(Tail(segs),
                         IF out = <<>> THEN out ELSE SubSeq(out, 1, Len(out) - 1))
  ELSE IF Head(segs) = <<".">> THEN RemoveDotSegments(Tail(segs), out)
  ELSE RemoveDotSegments(Tail(segs), Append(out, Head(segs)))

\* POST /api/services/<domain>/<service> of a service on the deny-list
DangerousEndpoints ==
  {<<<<"api">>, <<"services">>, <<full[1]>>, <<full[3]>>>> :
     full \in dangerousServices}

\* getEntityState(args), args.entity_id = a
getEntityStateRequests(a) ==
  LET sanitizedEntityId == sanitizeInput(a)
  IN IF a = <<>> THEN Handled("fail", {}, <<>>)
     ELSE IF ~validateEntityId(sanitizedEntityId) THEN Handled("fail", {}, <<>>)
     ELSE Handled("sent", {sanitizedEntityId},
                  <<Request("GET", <<"/", "api", "/", "states", "/">>
                                   \o sanitizedEntityId,
                            {sanitizedEntityId})>>)

\* toggleEntity(args), args.entity_id = a, args.state = b
toggleEntityRequests(a, b) ==
  LET sanitizedEntityId == sanitizeInput(a)
  IN IF a = <<>> \/ b = <<>> THEN Handled("fail", {}, <<>>)
     ELSE IF ~validateEntityId(sanitizedEntityId) THEN Handled("fail", {}, <<>>)
     ELSE IF b \notin {<<"on">>, <<"off">>}
     THEN Handled("fail", {sanitizedEntityId}, <<>>)
     ELSE Handled("sent", {sanitizedEntityId},
                  <<Request("POST",
                            <<"/", "api", "/", "services", "/",
                              "homeassistant", "/", "turn_">> \o b,
                            {sanitizedEntityId})>>)

\* callService(args), args.domain = a, args.service = b,
\* args.target.entity_id = c (<<>> when there is no target)
callServiceRequests(a, b, c) ==
  LET sanitizedDomain == sanitizeInput(a)
      sanitizedService == sanitizeInput(b)
      sanitizedEntityId == sanitizeInput(c)
      checked == IF c = <<>> THEN {} ELSE {sanitizedEntityId}
      fullServiceName == sanitizedDomain \o <<".">> \o sanitizedService
  IN IF a = <<>> \/ b = <<>> THEN Handled("fail", {}, <<>>)
     ELSE IF ~IsServiceName(sanitizedDomain) \/ ~IsServiceName(sanitizedService)
     THEN Handled("fail", {}, <<>>)
     ELSE IF c # <<>> /\ ~validateEntityId(sanitizedEntityId)
     THEN Handled("fail", {}, <<>>)
     ELSE IF fullServiceName \in dangerousServices
     THEN Handled("fail", checked, <<>>)
     ELSE Handled("sent", checked,
                  <<Request("POST",
                            <<"/", "api", "/", "services", "/">>
                            \o sanitizedDomain \o <<"/">> \o sanitizedService,
                            IF c = <<>> THEN {} ELSE {c})>>)

\* manageShoppingList(args) with action 'update', args.list_id = a,
\* args.item_id = b; todoFails: the todo.update_item call finally failed
manageShoppingListUpdateRequests(a, b, todoFails) ==
  LET listEntityId == IF a = <<>> THEN <<"todo", ".", "shopping_list">> ELSE a
      ids == IF a = <<>> THEN {} ELSE {listEntityId}
      viaService == Request("POST", <<"/", "api", "/", "services", "/", "todo",
                                      "/", "update_item">>, ids)
      direct == Request("POST", <<"/", "api", "/", "shopping_list", "/",
                                  "item", "/">> \o b, {})
  IN IF b = <<>> THEN Handled("fail", {}, <<>>)
     ELSE IF todoFails THEN Handled("sent", {}, <<viaService, direct>>)
     ELSE Handled("sent", {}, <<viaService>>)

\* ------------------------------------------------------------------ state
VARIABLES
  now,              \* Date.now()
  rateLimitWindow,  \* config.rateLimitWindow
  rateLimitMax,     \* config.rateLimitMax
  retryAttempts,    \* config.retryAttempts
  entry,            \* rateLimitMap.get('default'), NoEntry when absent
  last,             \* the latest checkRateLimit call: time, entry before,
                    \* result, and the calls allowed since the entry was created
  recent,           \* times of the allowed calls of the last rateLimitWindow
  inv,              \* the tool invocation in flight
  slot,             \* the outbound calls of the invocation (two under Promise.all)
  call,             \* the arguments of an invocation and what became of it
  sent,             \* the requests the invocation handed to haClient
  reached,          \* the endpoints these requests arrived at
  session,          \* the WebSocket session of createTodoListViaWebSocket
  pair,             \* two sessions of createTodoListViaWebSocket open at once
  tasks             \* several tool invocations in flight at once

vars == <<now, rateLimitWindow, rateLimitMax, retryAttempts, entry, last,
          recent, inv, slot, call, sent, reached, session, pair, tasks>>

config == <<rateLimitWindow, rateLimitMax, retryAttempts>>

limiter == <<entry, last, recent>>

dataflow == <<call, sent, reached>>

\* no arguments under study
NoCallArgs == [tool |-> "none"]

\* no session
NoSession == [st |-> "none"]

\* no pair of sessions
NoPair == <<>>

\* no concurrent invocations
NoTasks == <<>>

Slots == {1, 2}

IdleSlot ==
  [st |-> "idle", retry |-> FALSE, i |-> 0, calls |-> 0, waits |-> 0,
   fails |-> 0, err |-> NoErr, val |-> 0, joined |-> FALSE]

IdleInv ==
  [tool |-> "none", badAt |-> 0, pc |-> 0, st |-> "idle", out |-> "none",
   err |-> NoErr, rl |-> "none", http |-> 0, raw |-> 0, wr |-> 0, ws |-> 0,
   all404 |-> TRUE, failed |-> 0, swallowed |-> 0, valFailed |-> FALSE,
   entry0 |-> NoEntry]

Init ==
  /\ now = 0
  /\ rateLimitWindow \in 1..MaxWindow
  /\ rateLimitMax \in 1..MaxRateMax
  /\ retryAttempts \in 1..MaxAttempts
  /\ entry = NoEntry
  /\ last = NoCall
  /\ recent = <<>>
  /\ inv = IdleInv
  /\ slot = [s \in Slots |-> IdleSlot]
  /\ call = NoCallArgs
  /\ sent = <<>>
  /\ reached = {}
  /\ session = NoSession
  /\ pair = NoPair
  /\ tasks = NoTasks

Active(s) == slot[s].st \in {"inflight", "delay"}

CurIns == Handlers[inv.tool][inv.pc]

Running(op) == inv.st = "run" /\ CurIns.op = op

\* the clock advances; allowed calls older than one window are forgotten
Tick ==
  /\ now < MaxTime
  /\ now' = now + 1
  /\ recent' = SelectSeq(recent, LAMBDA t : t >= now' - rateLimitWindow)
  /\ UNCHANGED <<pair, tasks, dataflow, session, config, entry, last, inv, slot>>

\* a tools/call request arrives and the switch selects the handler
Invoke ==
  /\ inv.st = "idle"
  /\ \E tool \in Tools : \E bad \in {0} \cup ValAt(tool) :
       inv' = [IdleInv EXCEPT !.tool = tool, !.badAt = bad, !.pc = 1,
                              !.st = "run", !.entry0 = entry]
  /\ slot' = [s \in Slots |-> IdleSlot]
  /\ UNCHANGED <<pair, tasks, dataflow, session, now, config, limiter>>

\* the response went out and the background calls have ended: the next
\* request is read
NextRequest ==
  /\ inv.st = "done"
  /\ \A s \in Slots : ~Active(s)
  /\ inv' = IdleInv
  /\ slot' = [s \in Slots |-> IdleSlot]
  /\ UNCHANGED <<pair, tasks, dataflow, session, now, config, limiter>>

\* the invocation after error e was raised by the instruction at inv.pc
Raised(i, e, stack) ==
  LET r == Unwind(e, stack)
  IN IF r.act = "goto"
     THEN [i EXCEPT !.pc = r.pc, !.st = "run", !.swallowed = @ + 1]
     ELSE [i EXCEPT !.st = "done", !.out = "fail", !.err = r.err]

\* if (!this.checkRateLimit()) throw new McpError(InternalError, 'Rate limit exceeded')
StepRateLimit ==
  /\ Running("rl")
  /\ LET c == checkRateLimit(entry, now, rateLimitMax, rateLimitWindow)
     IN /\ entry' = c.entry
        /\ last' = [t |-> now, before |-> entry, ok |-> c.ok,
                    replaced |-> c.replaced,
                    n |-> IF c.replaced THEN 1
                          ELSE IF c.ok THEN last.n + 1 ELSE last.n]
        /\ recent' = IF c.ok THEN Append(recent, now) ELSE recent
        /\ inv' = IF c.ok THEN [inv EXCEPT !.pc = @ + 1, !.rl = "ok"]
                  ELSE Raised([inv EXCEPT !.rl = "denied"], RateLimitExceeded,
                              CurIns.try)
  /\ UNCHANGED <<pair, tasks, dataflow, session, now, config, slot>>

\* an argument check: throws InvalidParams when the arguments fail it
StepValidate ==
  /\ Running("val") \/ Running("fail")
  /\ inv' = IF CurIns.op = "fail" \/ inv.badAt = inv.pc
            THEN Raised([inv EXCEPT !.valFailed = TRUE],
                        InvalidParams("validation"), CurIns.try)
            ELSE [inv EXCEPT !.pc = @ + 1]
  /\ UNCHANGED <<pair, tasks, dataflow, session, now, config, limiter, slot>>

\* the first attempt of an outbound call
FirstAttempt(retry) ==
  [IdleSlot EXCEPT !.st = "inflight", !.retry = retry, !.calls = 1,
                   !.joined = TRUE]

\* await this.withRetry(() => this.haClient.x(...)), or the bare request
StepRequest ==
  /\ Running("req") \/ Running("raw")
  /\ slot' = [slot EXCEPT ![1] = FirstAttempt(CurIns.op = "req")]
  /\ inv' = [inv EXCEPT !.st = "await", !.http = @ + 1,
                        !.raw = IF CurIns.op = "raw" THEN @ + 1 ELSE @,
                        !.wr = IF CurIns.op = "req" THEN @ + 1 ELSE @]
  /\ UNCHANGED <<pair, tasks, dataflow, session, now, config, limiter>>

\* await Promise.all([this.withRetry(..), this.withRetry(..)])
StepPromiseAll ==
  /\ Running("par")
  /\ slot' = [s \in Slots |-> FirstAttempt(TRUE)]
  /\ inv' = [inv EXCEPT !.st = "await", !.http = @ + 2, !.wr = @ + 2]
  /\ UNCHANGED <<pair, tasks, dataflow, session, now, config, limiter>>

\* a branch on the data of a response
StepBranch ==
  /\ Running("alt")
  /\ \E k \in CurIns.alt : inv' = [inv EXCEPT !.pc = k]
  /\ UNCHANGED <<pair, tasks, dataflow, session, now, config, limiter, slot>>

\* return await this.createTodoListViaWebSocket(name)
StepWebSocket ==
  /\ Running("ws")
  /\ inv' = [inv EXCEPT !.st = "awaitws", !.ws = @ + 1]
  /\ UNCHANGED <<pair, tasks, dataflow, session, now, config, limiter, slot>>

\* the promise of createTodoListViaWebSocket settles
WebSocketSettles ==
  /\ inv.st = "awaitws"
  /\ \/ inv' = [inv EXCEPT !.pc = @ + 1, !.st = "run"]
     \/ inv' = Raised(inv, InternalError("ws"), CurIns.try)
  /\ UNCHANGED <<pair, tasks, dataflow, session, now, config, limiter, slot>>

\* return { content: [...] }
StepReturn ==
  /\ Running("ret")
  /\ inv' = [inv EXCEPT !.st = "done", !.out = "ok"]
  /\ UNCHANGED <<pair, tasks, dataflow, session, now, config, limiter, slot>>

\* withRetry giving up one attempt too late (i === attempts)
WithRetryGivesUpLate(i, attempts) == i = attempts

\* withRetry, catch block: rethrow after the last attempt, else wait
WithRetryGivesUp(i, attempts) == i = attempts - 1

\* withRetry, loop head: another attempt is made while i < attempts
WithRetryLoops(i, attempts) == i < attempts

\* the error withRetry throws when attempt i (0-based) failed with e
WithRetryThrows(e, i) == e

\* a 404 answer treated as final: rethrown without another attempt
AfterResponseFinal404(c, r, attempts) ==
  IF r = 200 THEN [c EXCEPT !.st = "ok", !.val = c.calls]
  ELSE LET e == AxiosError(r, c.calls)
       IN IF ~c.retry \/ r = 404 \/ WithRetryGivesUp(c.i, attempts)
          THEN [c EXCEPT !.st = "err", !.fails = @ + 1, !.err = e]
          ELSE [c EXCEPT !.st = "delay", !.fails = @ + 1, !.waits = @ + 1,
                         !.err = e]

\* the retry delay awaited after every attempt, the successful one included
AfterResponseWaitsAlways(c, r, attempts) ==
  IF r = 200 THEN [c EXCEPT !.st = "ok", !.val = c.calls, !.waits = @ + 1]
  ELSE LET e == AxiosError(r, c.calls)
       IN IF ~c.retry THEN [c EXCEPT !.st = "err", !.fails = @ + 1, !.err = e]
          ELSE IF WithRetryGivesUp(c.i, attempts)
          THEN [c EXCEPT !.st = "err", !.fails = @ + 1, !.waits = @ + 1,
                         !.err = WithRetryThrows(e, c.i)]
          ELSE [c EXCEPT !.st = "delay", !.fails = @ + 1, !.waits = @ + 1,
                         !.err = e]

\* the state of a call after its request in flight was answered
AfterResponse(c, r, attempts) ==
  IF r = 200 THEN [c EXCEPT !.st = "ok", !.val = c.calls]
  ELSE LET e == AxiosError(r, c.calls)
       IN IF ~c.retry THEN [c EXCEPT !.st = "err", !.fails = @ + 1, !.err = e]
          ELSE IF WithRetryGivesUp(c.i, attempts)
          THEN [c EXCEPT !.st = "err", !.fails = @ + 1,
                         !.err = WithRetryThrows(e, c.i)]
          ELSE [c EXCEPT !.st = "delay", !.fails = @ + 1, !.waits = @ + 1,
                         !.err = e]

\* the remote answers the request in flight of call s
Respond ==
  \E s \in Slots : \E r \in Statuses :
    /\ slot[s].st = "inflight"
    /\ slot' = [slot EXCEPT ![s] = AfterResponse(slot[s], r, retryAttempts)]
    /\ inv' = [inv EXCEPT !.all404 = @ /\ r = 404]
    /\ UNCHANGED <<pair, tasks, dataflow, session, now, config, limiter>>

\* setTimeout(resolve, config.retryDelay) fires: i++ and the next attempt
RetryDelayElapsed ==
  \E s \in Slots :
    /\ slot[s].st = "delay"
    /\ IF WithRetryLoops(slot[s].i + 1, retryAttempts)
       THEN /\ slot' = [slot EXCEPT ![s].st = "inflight", ![s].i = @ + 1,
                                    ![s].calls = @ + 1]
            /\ inv' = [inv EXCEPT !.http = @ + 1]
       ELSE /\ slot' = [slot EXCEPT ![s].st = "err", ![s].i = @ + 1,
                                    ![s].err = Err("error", "none", "retry", 0, 0)]
            /\ inv' = inv
    /\ UNCHANGED <<pair, tasks, dataflow, session, now, config, limiter>>

\* the calls the invocation awaits
Joined == {s \in Slots : slot[s].joined}

\* the awaited promise settles and the handler continues: Promise.all
\* rejects with the first rejection and resolves when every call resolved
Resume ==
  /\ inv.st = "await"
  /\ \/ /\ \A s \in Joined : slot[s].st = "ok"
        /\ inv' = [inv EXCEPT !.pc = @ + 1, !.st = "run"]
     \/ \E s \in Joined :
        /\ slot[s].st = "err"
        /\ inv' = Raised([inv EXCEPT !.failed = @ + 1], slot[s].err,
                         CurIns.try)
  /\ slot' = [s \in Slots |-> [slot[s] EXCEPT !.joined = FALSE]]
  /\ UNCHANGED <<pair, tasks, dataflow, session, now, config, limiter>>

Next ==
  \/ Tick
  \/ Invoke
  \/ NextRequest
  \/ StepRateLimit
  \/ StepValidate
  \/ StepRequest
  \/ StepPromiseAll
  \/ StepBranch
  \/ StepWebSocket
  \/ WebSocketSettles
  \/ StepReturn
  \/ Respond
  \/ RetryDelayElapsed
  \/ Resume

Spec == Init /\ [][Next]_vars

\* ------------------------------------------------- arguments and requests
\* The handlers once more, with their arguments spelled out: which requests
\* an invocation issues for given arguments, and where they arrive.  Rate
\* limit and retries are those of Spec and are left out here.
EntityInputs ==
  {<<>>, <<"light", ".", "kitchen">>, <<"light", ".", "<", "kitchen">>,
   <<"A", ".", "kitchen">>, <<"light", "kitchen">>}

DomainInputs ==
  {<<>>, <<"homeassistant">>, <<"<", "homeassistant">>, <<"recorder">>,
   <<"system_log">>, <<"light">>, <<"A">>}

ServiceInputs ==
  {<<>>, <<"restart">>, <<"restart", "&">>, <<"stop">>, <<"purge">>,
   <<"clear">>, <<"turn_on">>}

StateInputs == {<<>>, <<"on">>, <<"off">>, <<"restart">>}

ListInputs ==
  {<<>>, <<"todo", ".", "shopping_list">>, <<"todo", ".", "<", "apples">>,
   <<"A">>}

ItemInputs ==
  {<<>>, <<"7">>,
   <<".", ".", "/", ".", ".", "/", "services", "/", "homeassistant", "/",
     "restart">>}

ArgsOf(tool) ==
  CASE tool = "get_state" -> EntityInputs \X {<<>>} \X {<<>>}
    [] tool = "toggle_entity" -> EntityInputs \X StateInputs \X {<<>>}
    [] tool = "call_service" -> DomainInputs \X ServiceInputs \X EntityInputs
    [] tool = "shopping_update" -> ListInputs \X ItemInputs \X {<<>>}

DataTools == {"get_state", "toggle_entity", "call_service", "shopping_update"}

InitData ==
  /\ Init
  /\ rateLimitWindow = 1
  /\ rateLimitMax = 1
  /\ retryAttempts = 1

\* a tools/call request with its arguments
ArgsArrive ==
  /\ call.tool = "none"
  /\ \E tool \in DataTools : \E args \in ArgsOf(tool) :
       call' = [tool |-> tool, a |-> args[1], b |-> args[2], c |-> args[3],
                st |-> "new", out |-> "none", checked |-> {}, tx |-> 0]
  /\ sent' = <<>>
  /\ reached' = {}
  /\ UNCHANGED <<pair, tasks, now, config, limiter, inv, slot, session>>

\* the handler runs on the arguments
HandlerRuns ==
  /\ call.tool # "none"
  /\ call.st = "new"
  /\ \E todoFails \in BOOLEAN :
       LET h == CASE call.tool = "get_state" -> getEntityStateRequests(call.a)
                  [] call.tool = "toggle_entity" ->
                       toggleEntityRequests(call.a, call.b)
                  [] call.tool = "call_service" ->
                       callServiceRequests(call.a, call.b, call.c)
                  [] call.tool = "shopping_update" ->
                       manageShoppingListUpdateRequests(call.a, call.b, todoFails)
       IN /\ call' = [call EXCEPT !.st = "handled", !.out = h.out,
                                  !.checked = h.checked]
          /\ sent' = h.reqs
  /\ UNCHANGED <<pair, tasks, now, config, limiter, inv, slot, reached, session>>

\* the HTTP client transmits the next request: the path arrives as written
\* or with its dot segments resolved
Transmit ==
  /\ call.tool # "none"
  /\ call.st = "handled"
  /\ call.tx < Len(sent)
  /\ LET r == sent[call.tx + 1]
     IN \E path \in {Segments(r.url), RemoveDotSegments(Segments(r.url), <<>>)} :
          reached' = reached \cup {[method |-> r.method, path |-> path]}
  /\ call' = [call EXCEPT !.tx = @ + 1]
  /\ UNCHANGED <<pair, tasks, now, config, limiter, inv, slot, sent, session>>

NextData ==
  \/ ArgsArrive
  \/ HandlerRuns
  \/ Transmit

SpecData == InitData /\ [][NextData]_vars

\* ------------------------------------------------ createTodoListViaWebSocket
\* The session of one call: ws.readyState, the closure variables messageId
\* and authenticated, the promise of the call, the 30 s timer, and a record
\* of what was received, sent and closed.
Msg(type, success, flow, title) ==
  [type |-> type, success |-> success, flow |-> flow, title |-> title]

\* inbound messages: message.type, message.success, and whether
\* message.result carries a flow_id and a title
Messages ==
  {Msg(t, FALSE, FALSE, FALSE) :
     t \in {"auth_required", "auth_ok", "auth_invalid", "other"}}
  \cup {Msg("result", TRUE, f, t) : f \in BOOLEAN, t \in BOOLEAN}
  \cup {Msg("result", FALSE, FALSE, FALSE)}

\* outbound messages; id 0 when the message has no id
Out(type, id) == [type |-> type, id |-> id]

NewSession ==
  [st |-> "run", ready |-> "connecting", messageId |-> 1,
   authenticated |-> FALSE, outcome |-> "pending", detail |-> "none",
   timer |-> "armed", out |-> <<>>, inbox |-> <<>>, closes |-> 0,
   errored |-> FALSE, last |-> "none", wasPending |-> TRUE,
   inboundAtDeadline |-> 0]

\* cleanup closing the connection whatever its readyState
CleanupAlways(s) ==
  [s EXCEPT !.ready = IF @ = "closed" THEN @ ELSE "closing", !.closes = @ + 1]

\* cleanup closing the connection unless it is closed already
CleanupUnlessClosed(s) ==
  IF s.ready # "closed" THEN [s EXCEPT !.ready = "closing", !.closes = @ + 1]
  ELSE s

\* const cleanup = () => { if (ws.readyState === WebSocket.OPEN) ws.close() }
Cleanup(s) ==
  IF s.ready = "open" THEN [s EXCEPT !.ready = "closing", !.closes = @ + 1]
  ELSE s

\* a promise whose latest resolve or reject call wins
SettleOverrides(s, outcome, detail) ==
  [s EXCEPT !.outcome = outcome, !.detail = detail]

\* resolve(..) or reject(..): only the first call settles the promise
Settle(s, outcome, detail) ==
  IF s.outcome = "pending" THEN [s EXCEPT !.outcome = outcome, !.detail = detail]
  ELSE s

\* the id counted before it is used (id: ++messageId)
TakeIdIncrementsFirst(s) == s.messageId + 1

\* id: messageId++ : the id the message gets
TakeId(s) == s.messageId

\* sendMessage: ws.send transmits while the connection is open
SendMessage(s, type, id) ==
  IF s.ready = "open" THEN [s EXCEPT !.out = Append(@, Out(type, id))] ELSE s

\* a result with success false rejecting the call
OnResultRejectsFailure(s, m) ==
  IF m.success
  THEN IF m.flow
       THEN [SendMessage(s, "configure", TakeId(s)) EXCEPT !.messageId = @ + 1]
       ELSE IF m.title THEN Settle(Cleanup(s), "resolved", "created")
       ELSE Settle(Cleanup(s), "resolved", "unexpected")
  ELSE Settle(Cleanup(s), "rejected", "flow_failed")

\* message.type === 'result'
OnResult(s, m) ==
  IF m.success
  THEN IF m.flow
       THEN [SendMessage(s, "configure", TakeId(s)) EXCEPT !.messageId = @ + 1]
       ELSE IF m.title THEN Settle(Cleanup(s), "resolved", "created")
       ELSE Settle(Cleanup(s), "resolved", "unexpected")
  ELSE Settle(Cleanup(s), "resolved", "flow_failed")

\* ws.on('message', ...)
OnMessage(s, m) ==
  CASE m.type = "auth_required" -> SendMessage(s, "auth", 0)
    [] m.type = "auth_ok" ->
         [SendMessage([s EXCEPT !.authenticated = TRUE], "init", TakeId(s))
            EXCEPT !.messageId = @ + 1]
    [] m.type = "auth_invalid" -> Settle(Cleanup(s), "rejected", "auth")
    [] m.type = "result" -> OnResult(s, m)
    [] OTHER -> s

\* the event is noted with whether the call was still pending when it came
Noted(s, before, ev) == [s EXCEPT !.last = ev, !.wasPending = before.outcome = "pending"]

InitWs ==
  /\ now = 0
  /\ rateLimitWindow = 1
  /\ rateLimitMax = 1
  /\ retryAttempts = 1
  /\ entry = [count |-> 1, resetTime |-> 1]
  /\ last = [t |-> 0, before |-> NoEntry, ok |-> TRUE, replaced |-> TRUE, n |-> 1]
  /\ recent = <<0>>
  /\ inv = [IdleInv EXCEPT !.tool = "todo_create_list_ws", !.pc = 5,
                           !.st = "awaitws", !.rl = "ok", !.ws = 1]
  /\ slot = [s \in Slots |-> IdleSlot]
  /\ call = NoCallArgs
  /\ sent = <<>>
  /\ reached = {}
  /\ session = NewSession
  /\ pair = NoPair
  /\ tasks = NoTasks

WsUnchanged == UNCHANGED <<pair, tasks, now, config, limiter, inv, slot, dataflow>>

\* ws.on('open', ...): the handshake completed
WsOpen ==
  /\ session.ready = "connecting"
  /\ session' = Noted([session EXCEPT !.ready = "open"], session, "open")
  /\ WsUnchanged

\* ws.on('message', ...): messages arrive until the connection is closed
WsMessage ==
  /\ session.ready \in {"open", "closing"}
  /\ Len(session.inbox) < MaxInbound
  /\ \E m \in Messages :
       session' = Noted([OnMessage(session, m) EXCEPT !.inbox = Append(@, m)],
                        session, m.type)
  /\ WsUnchanged

\* ws.on('error', ...)
WsError ==
  /\ session.ready # "closed"
  /\ ~session.errored
  /\ session' = Noted([Settle(Cleanup(session), "rejected", "error")
                         EXCEPT !.errored = TRUE], session, "error")
  /\ WsUnchanged

\* a close handler that rejects whether authenticated or not
WsCloseRejectsAlways ==
  /\ session.ready # "closed"
  /\ session' = Noted([Settle(session, "rejected", "closed")
                         EXCEPT !.ready = "closed"], session, "close")
  /\ WsUnchanged

\* ws.on('close', ...)
WsClose ==
  /\ session.ready # "closed"
  /\ session' = Noted([(IF session.authenticated THEN session
                        ELSE Settle(session, "rejected", "closed"))
                         EXCEPT !.ready = "closed"], session, "close")
  /\ WsUnchanged

\* setTimeout(() => { cleanup(); reject(..) }, 30000)
WsTimeout ==
  /\ session.timer = "armed"
  /\ session' = Noted([Settle(Cleanup(session), "rejected", "timeout")
                         EXCEPT !.timer = "fired",
                                !.inboundAtDeadline = Len(session.inbox)],
                      session, "timeout")
  /\ WsUnchanged

NextWs ==
  \/ WsOpen
  \/ WsMessage
  \/ WsError
  \/ WsClose
  \/ WsTimeout

SpecWs == InitWs /\ [][NextWs]_vars

\* the timer always fires
SpecWsFair == SpecWs /\ WF_vars(WsTimeout)

\* ------------------------------------------------- the string functions
\* sanitizeInput and validateEntityId applied to strings of up to MaxLen
\* characters and to the identifiers the handlers are documented with.  A
\* string is a sequence of characters; a word stands for the run of
\* lowercase letters and underscores it spells, "7" for a digit and "A" for
\* an uppercase letter.

TextChars == {"light", "living_room", "7", ".", "A"} \cup Stripped

RECURSIVE StringsUpTo(_)
StringsUpTo(n) ==
  IF n = 0 THEN {<<>>}
  ELSE LET shorter == StringsUpTo(n - 1)
       IN shorter \cup {Append(t, c) : t \in shorter, c \in TextChars}

TextExamples ==
  {<<"light", ".", "living_room">>, <<"automation", ".", "morning_routine">>,
   <<"A", "light", ".", "A", "living_room">>, <<"light", ".">>,
   <<"light", "living_room">>, <<"light", ".", "<", "script", ">">>}

TextInputs == StringsUpTo(MaxLen) \cup TextExamples

InitText ==
  /\ now = 0
  /\ rateLimitWindow = 1
  /\ rateLimitMax = 1
  /\ retryAttempts = 1
  /\ entry = NoEntry
  /\ last = NoCall
  /\ recent = <<>>
  /\ inv = IdleInv
  /\ slot = [s \in Slots |-> IdleSlot]
  /\ sent = <<>>
  /\ reached = {}
  /\ session = NoSession
  /\ pair = NoPair
  /\ tasks = NoTasks
  /\ \E input \in TextInputs :
       call = [tool |-> "text", a |-> input, st |-> "new", clean |-> <<>>,
               again |-> <<>>, valid |-> "unknown"]

\* this.sanitizeInput(input), and sanitizeInput of what it returned
TextSanitize ==
  /\ call.tool = "text"
  /\ call.st = "new"
  /\ call' = [call EXCEPT !.st = "sanitized", !.clean = sanitizeInput(call.a),
                          !.again = sanitizeInput(sanitizeInput(call.a))]
  /\ UNCHANGED <<pair, tasks, now, config, limiter, inv, slot, sent, reached, session>>

\* this.validateEntityId(entityId)
TextValidate ==
  /\ call.tool = "text"
  /\ call.valid = "unknown"
  /\ call' = [call EXCEPT !.valid = IF validateEntityId(call.a) THEN "yes" ELSE "no"]
  /\ UNCHANGED <<pair, tasks, now, config, limiter, inv, slot, sent, reached, session>>

NextText ==
  \/ TextSanitize
  \/ TextValidate

SpecText == InitText /\ [][NextText]_vars

\* ------------------------------------------------ two sessions at once
\* Two calls of createTodoListViaWebSocket are in flight; each call runs the
\* function body once, so each has its own ws, messageId and authenticated.

Sessions == {1, 2}

\* messageId as one variable shared by all calls
OwnSharedCounter(p, k, s) ==
  [j \in Sessions |-> IF j = k THEN s ELSE [p[j] EXCEPT !.messageId = s.messageId]]

\* let messageId = 1 is local to the call: a handler of session k writes the
\* variables of session k only
Own(p, k, s) == [p EXCEPT ![k] = s]

InitPair ==
  /\ now = 0
  /\ rateLimitWindow = 1
  /\ rateLimitMax = 1
  /\ retryAttempts = 1
  /\ entry = NoEntry
  /\ last = NoCall
  /\ recent = <<>>
  /\ inv = IdleInv
  /\ slot = [s \in Slots |-> IdleSlot]
  /\ call = NoCallArgs
  /\ sent = <<>>
  /\ reached = {}
  /\ session = NoSession
  /\ pair = [k \in Sessions |-> NewSession]
  /\ tasks = NoTasks

PairUnchanged == UNCHANGED <<now, config, limiter, inv, slot, dataflow, session, tasks>>

\* ws.on('open', ...) of session k
PairOpen(k) ==
  /\ pair[k].ready = "connecting"
  /\ pair' = Own(pair, k, [pair[k] EXCEPT !.ready = "open"])
  /\ PairUnchanged

\* ws.on('message', ...) of session k; of the messages received the pair
\* keeps the number only
PairMessage(k) ==
  /\ pair[k].ready \in {"open", "closing"}
  /\ Len(pair[1].inbox) + Len(pair[2].inbox) < MaxPairInbound
  /\ \E m \in Messages :
       pair' = Own(pair, k, [OnMessage(pair[k], m) EXCEPT !.inbox = Append(@, "m")])
  /\ PairUnchanged

\* ws.on('error', ...) of session k
PairError(k) ==
  /\ pair[k].ready # "closed"
  /\ ~pair[k].errored
  /\ pair' = Own(pair, k, [Settle(Cleanup(pair[k]), "rejected", "error")
                             EXCEPT !.errored = TRUE])
  /\ PairUnchanged

\* ws.on('close', ...) of session k
PairClose(k) ==
  /\ pair[k].ready # "closed"
  /\ pair' = Own(pair, k, [(IF pair[k].authenticated THEN pair[k]
                            ELSE Settle(pair[k], "rejected", "closed"))
                             EXCEPT !.ready = "closed"])
  /\ PairUnchanged

\* the timer of session k
PairTimeout(k) ==
  /\ pair[k].timer = "armed"
  /\ pair' = Own(pair, k, [Settle(Cleanup(pair[k]), "rejected", "timeout")
                             EXCEPT !.timer = "fired"])
  /\ PairUnchanged

NextPair ==
  \E k \in Sessions :
    \/ PairOpen(k)
    \/ PairMessage(k)
    \/ PairError(k)
    \/ PairClose(k)
    \/ PairTimeout(k)

SpecPair == InitPair /\ [][NextPair]_vars

\* ------------------------------------------- several invocations at once
\* The server answers each tools/call in its own async call chain.  A chain
\* runs without interruption from one await to the next: from the start of
\* the handler through checkRateLimit to the first haClient call, from a
\* response to the next request or delay, from the end of a delay to the
\* next attempt.  Every invocation here is a handler of the shape
\* checkRateLimit(); return await withRetry(() => haClient.get(..)).

Tasks == 1..MaxTasks

IdleTask == [st |-> "idle", seen |-> NoEntry, att |-> 0, out |-> "none", free |-> TRUE]

\* the entry as it was when the request arrived
EntryReadAtArrival(k) == tasks[k].seen

\* const entry = rateLimitMap.get(key), read in the same turn as the update
EntryRead(k) == entry

\* a delay that holds the thread until it is over
RunnableUnlessDelay(k) == \A j \in Tasks \ {k} : tasks[j].st # "delay"

\* await new Promise(resolve => setTimeout(resolve, ..)) returns to the event
\* loop: the continuation of any other chain can run
Runnable(k) == TRUE

\* every step of invocation k so far was taken while another invocation was
\* inside its delay
Freely(k) == tasks[k].free /\ \E j \in Tasks \ {k} : tasks[j].st = "delay"

InitTasks ==
  /\ now = 0
  /\ rateLimitWindow \in 1..MaxWindow
  /\ rateLimitMax \in 1..MaxRateMax
  /\ retryAttempts \in 1..MaxAttempts
  /\ entry = NoEntry
  /\ last = NoCall
  /\ recent = <<>>
  /\ inv = IdleInv
  /\ slot = [s \in Slots |-> IdleSlot]
  /\ call = NoCallArgs
  /\ sent = <<>>
  /\ reached = {}
  /\ session = NoSession
  /\ pair = NoPair
  /\ tasks = [k \in Tasks |-> IdleTask]

\* a tools/call request is received
TaskArrive(k) ==
  /\ tasks[k].st = "idle"
  /\ Runnable(k)
  /\ tasks' = [tasks EXCEPT ![k] = [@ EXCEPT !.st = "arrived", !.seen = entry,
                                             !.free = Freely(k)]]
  /\ UNCHANGED <<now, config, limiter, inv, slot, dataflow, session, pair>>

\* the handler runs up to its first await: checkRateLimit, then the first
\* attempt of withRetry
TaskStart(k) ==
  /\ tasks[k].st = "arrived"
  /\ Runnable(k)
  /\ LET c == checkRateLimit(EntryRead(k), now, rateLimitMax, rateLimitWindow)
         over == entry = NoEntry \/ now > entry.resetTime
         one == IF c.ok THEN 1 ELSE 0
     IN /\ entry' = c.entry
        /\ last' = [NoCall EXCEPT !.n = IF over THEN one ELSE last.n + one]
        /\ tasks' = [tasks EXCEPT ![k] =
                       IF c.ok THEN [@ EXCEPT !.st = "inflight", !.att = 1,
                                              !.seen = NoEntry,
                                              !.free = Freely(k)]
                       ELSE [@ EXCEPT !.st = "done", !.out = "denied",
                                      !.seen = NoEntry,
                                      !.free = Freely(k)]]
  /\ UNCHANGED <<now, config, recent, inv, slot, dataflow, session, pair>>

\* the response of the attempt arrives: return, or catch and delay, or throw
TaskResponse(k) ==
  /\ tasks[k].st = "inflight"
  /\ Runnable(k)
  /\ \E ok \in BOOLEAN :
       tasks' = [tasks EXCEPT ![k] =
                  IF ok THEN [@ EXCEPT !.st = "done", !.out = "ok", !.free = Freely(k)]
                  ELSE IF tasks[k].att < retryAttempts
                  THEN [@ EXCEPT !.st = "delay", !.free = Freely(k)]
                  ELSE [@ EXCEPT !.st = "done", !.out = "failed", !.free = Freely(k)]]
  /\ UNCHANGED <<now, config, limiter, inv, slot, dataflow, session, pair>>

\* the delay is over: the next attempt
TaskDelayElapsed(k) ==
  /\ tasks[k].st = "delay"
  /\ Runnable(k)
  /\ tasks' = [tasks EXCEPT ![k] = [@ EXCEPT !.st = "inflight", !.att = @ + 1,
                                             !.free = Freely(k)]]
  /\ UNCHANGED <<now, config, limiter, inv, slot, dataflow, session, pair>>

NextTasks ==
  \/ Tick
  \/ \E k \in Tasks :
       \/ TaskArrive(k)
       \/ TaskStart(k)
       \/ TaskResponse(k)
       \/ TaskDelayElapsed(k)

SpecTasks == InitTasks /\ [][NextTasks]_vars

\* ------------------------------------------------------------------ claims

\* C1: the calls allowed since an entry was created never exceed
\* rateLimitMax: the stored count and the number of allowed calls counted
\* since the creation stay at most rateLimitMax, and a call that finds the
\* count at the maximum in a window not yet over is denied and leaves the
\* entry as it was.
C1_CountWithinMax ==
  /\ entry.count <= rateLimitMax
  /\ last.n <= rateLimitMax
  /\ (/\ last.t >= 0
      /\ last.before # NoEntry
      /\ last.before.count = rateLimitMax
      /\ last.t <= last.before.resetTime)
     => (~last.ok /\ entry = last.before)

C1_DeniedAtMax ==
  /\ last.t >= 0
  /\ last.before.count = rateLimitMax
  /\ last.t <= last.before.resetTime
  /\ ~last.ok
  /\ inv.rl = "denied"

\* C2: a call made exactly at the stored resetTime replaces the entry by
\* {count: 1, resetTime: now + window} and is allowed.
C2_ResetAtResetTime ==
  (last.t >= 0 /\ last.before # NoEntry /\ last.t = last.before.resetTime)
  => /\ last.ok
     /\ entry = [count |-> 1, resetTime |-> last.t + rateLimitWindow]

\* C3: in a time interval no longer than one window at most 2*max-1 calls
\* are allowed (recent holds the allowed calls of the interval of one window
\* length that ends now).
C3_BurstBound == Len(recent) <= 2 * rateLimitMax - 1

\* 2*max-1 allowed calls in one such interval, across a window reset
C3_BurstReached ==
  /\ rateLimitMax >= 2
  /\ Len(recent) = 2 * rateLimitMax - 1
  /\ last.ok
  /\ Head(recent) < entry.resetTime - rateLimitWindow

\* C4: a withRetry call that returned made one invocation more than it saw
\* failures, fewer failures than attempts, one wait per failure, and returns
\* the value of its last invocation.
C4_SucceedsAfterFailures ==
  \A s \in Slots :
    (slot[s].retry /\ slot[s].st = "ok")
    => /\ slot[s].fails < retryAttempts
       /\ slot[s].calls = slot[s].fails + 1
       /\ slot[s].waits = slot[s].fails
       /\ slot[s].val = slot[s].calls

C4_SucceededAfterFailure ==
  \E s \in Slots : slot[s].retry /\ slot[s].st = "ok" /\ slot[s].fails >= 1

\* C5: a withRetry call that threw made exactly retryAttempts invocations,
\* waited retryAttempts - 1 times and throws the error of its last invocation.
C5_FailsAfterAttempts ==
  \A s \in Slots :
    (slot[s].retry /\ slot[s].st = "err")
    => /\ slot[s].calls = retryAttempts
       /\ slot[s].fails = retryAttempts
       /\ slot[s].waits = retryAttempts - 1
       /\ slot[s].err.cls = "axios"
       /\ slot[s].err.n = retryAttempts

C5_FailedAfterRetry ==
  \E s \in Slots : slot[s].retry /\ slot[s].st = "err" /\ slot[s].calls >= 2

\* an invocation that passed the rate limit and every argument check, whose
\* remote answered 404 to every request, and which has ended
All404Ended ==
  /\ inv.st = "done"
  /\ inv.rl = "ok"
  /\ inv.badAt = 0
  /\ ~inv.valFailed
  /\ inv.all404
  /\ inv.http >= 1

\* C6 as stated: such an invocation has issued exactly retryAttempts HTTP
\* requests when its failure is surfaced.
C6_ExactlyAttemptsRequests ==
  (All404Ended /\ inv.out = "fail") => inv.http = retryAttempts

\* C6 amended: every withRetry call of such an invocation issues exactly
\* retryAttempts requests and every request outside withRetry is issued
\* once; the total is retryAttempts for get_state, 1 for activate_scene and
\* 2 * retryAttempts for manage_todo_lists get_items.
C6_AttemptsPerRetryCall ==
  (All404Ended /\ \A s \in Slots : ~Active(s))
  => /\ inv.http = retryAttempts * inv.wr + inv.raw
     /\ inv.tool = "get_state" => (inv.http = retryAttempts /\ inv.out = "fail")
     /\ inv.tool = "activate_scene" => (inv.http = 1 /\ inv.out = "fail")
     /\ inv.tool = "todo_get_items"
        => (inv.http = 2 * retryAttempts /\ inv.out = "fail")

C6_GetStateGaveUp ==
  /\ All404Ended
  /\ inv.tool = "get_state"
  /\ inv.out = "fail"
  /\ inv.http = retryAttempts
  /\ retryAttempts >= 2

\* C7: every HTTP request of a tool handler is issued from inside withRetry.
C7_AllRequestsInRetry ==
  /\ inv.raw = 0
  /\ \A s \in Slots : slot[s].calls > 0 => slot[s].retry

\* C8: an invocation that ends in the InvalidParams error of one of the
\* server's own argument checks has issued no HTTP request and opened no
\* WebSocket connection.
C8_NoNetworkBeforeInvalidParams ==
  (/\ inv.st = "done"
   /\ inv.err.code = "InvalidParams"
   /\ inv.err.origin = "validation")
  => (inv.http = 0 /\ inv.ws = 0)

\* C9 as stated: the argument checks come before the rate limiter, so an
\* invocation whose arguments fail a check leaves the entry as it found it.
C9_ValidationBeforeRateLimit ==
  inv.valFailed => (entry = inv.entry0 /\ inv.rl = "none")

\* C9 amended: the rate limiter is consulted before any argument check: a
\* check is only executed once the limiter allowed the invocation, and an
\* invocation whose arguments fail a check has used up one unit of quota
\* (the entry was replaced by a fresh one or its count raised by one).
C9_RateLimitBeforeValidation ==
  /\ (inv.st = "run" /\ CurIns.op \in {"val", "fail"}) => inv.rl = "ok"
  /\ inv.valFailed
     => /\ inv.rl = "ok"
        /\ entry # inv.entry0
        /\ \/ entry = [count |-> 1, resetTime |-> last.t + rateLimitWindow]
           \/ entry = [inv.entry0 EXCEPT !.count = @ + 1]

C9_InvalidCallUsedQuota ==
  /\ inv.st = "done"
  /\ inv.valFailed
  /\ inv.err = InvalidParams("validation")
  /\ inv.entry0 # NoEntry
  /\ entry.count = inv.entry0.count + 1

\* C10: an invocation that the rate limiter denied has failed with 'Rate
\* limit exceeded' without an HTTP request, a WebSocket connection or a
\* withRetry call.
C10_DeniedBeforeNetwork ==
  inv.rl = "denied"
  => /\ inv.st = "done"
     /\ inv.out = "fail"
     /\ inv.err = RateLimitExceeded
     /\ inv.http = 0
     /\ inv.ws = 0
     /\ inv.wr = 0
     /\ \A s \in Slots : slot[s] = IdleSlot

C10_Denied ==
  inv.rl = "denied" /\ inv.tool = "todo_create_list_ws" /\ inv.st = "done"

\* C11: an invocation in which an argument check failed ends at once in the
\* InvalidParams error of that check, unchanged.
C11_ValidationErrorUnchanged ==
  (inv.st = "done" /\ inv.valFailed)
  => (inv.out = "fail" /\ inv.err = InvalidParams("validation"))

\* C12 as stated: an invocation one of whose awaited requests finally failed
\* reports a failure.
C12_NoErrorSwallowed ==
  (inv.st = "done" /\ inv.failed > 0) => inv.out = "fail"

\* the tools whose handler returns a result after a request finally failed
FallbackTools ==
  {"send_notification_service", "list_notify_services",
   "get_sensor_data_history", "system_info", "system_info_addons",
   "todo_get_items", "shopping_get", "shopping_add", "shopping_update",
   "shopping_update_by_name", "shopping_remove", "shopping_remove_by_id"}

\* C12 amended: a request that finally failed makes the invocation report
\* one failure unless a fallback clause of the handler caught the error; a
\* success after a failed request is returned only by the handlers with such
\* a clause, and only when every failure was caught by one.
C12_FailureReportedUnlessFallback ==
  /\ inv.swallowed <= inv.failed
  /\ inv.failed <= inv.swallowed + 1
  /\ (inv.st = "done" /\ inv.failed > inv.swallowed)
     => (inv.out = "fail" /\ inv.err.cls = "mcp")
  /\ (inv.st = "done" /\ inv.out = "ok" /\ inv.failed > 0)
     => (inv.tool \in FallbackTools /\ inv.swallowed = inv.failed)
  /\ (inv.st = "done" /\ inv.failed > 0 /\ inv.tool \notin FallbackTools)
     => inv.out = "fail"

C12_FallbackReturned ==
  /\ inv.tool = "list_notify_services"
  /\ inv.st = "done"
  /\ inv.out = "ok"
  /\ inv.failed = 1
  /\ inv.swallowed = 1

\* C13: a call_service invocation whose sanitized domain.service is on the
\* deny-list fails without a request, and no request of any tool arrives at
\* one of the four service endpoints.
C13_DenyListHolds ==
  /\ (/\ call.tool = "call_service"
      /\ call.st = "handled"
      /\ sanitizeInput(call.a) \o <<".">> \o sanitizeInput(call.b)
           \in dangerousServices)
     => (call.out = "fail" /\ sent = <<>>)
  /\ \A r \in reached : ~(r.method = "POST" /\ r.path \in DangerousEndpoints)

\* C14: every resource identifier in a request was accepted by
\* validateEntityId in the form in which it is sent.
C14_IdentifiersChecked ==
  \A i \in 1..Len(sent) : sent[i].ids \subseteq call.checked

\* the latest inbound message
LastMessage == session.inbox[Len(session.inbox)]

\* no error event, no close event and no deadline so far
Undisturbed ==
  session.timer = "armed" /\ ~session.errored /\ session.ready # "closed"

\* C15: after auth_required, auth_ok, a successful result with a flow_id and
\* a successful result with a title, and nothing else, the session has sent
\* auth (no id), flow/init with id 1 and flow/configure with id 2, in this
\* order, has closed the connection and resolved with list_created = true.
C15_ScriptedScenario ==
  (/\ session.st = "run"
   /\ session.inbox = <<Msg("auth_required", FALSE, FALSE, FALSE),
                        Msg("auth_ok", FALSE, FALSE, FALSE),
                        Msg("result", TRUE, TRUE, FALSE),
                        Msg("result", TRUE, FALSE, TRUE)>>
   /\ Undisturbed)
  => /\ session.out = <<Out("auth", 0), Out("init", 1), Out("configure", 2)>>
     /\ session.outcome = "resolved"
     /\ session.detail = "created"
     /\ session.ready = "closing"
     /\ session.closes = 1

C15_ScenarioCompleted ==
  /\ session.st = "run"
  /\ Len(session.inbox) = 4
  /\ LastMessage = Msg("result", TRUE, FALSE, TRUE)
  /\ session.out = <<Out("auth", 0), Out("init", 1), Out("configure", 2)>>
  /\ session.detail = "created"
  /\ Undisturbed

\* C16: a successful result with a title, received while the call is
\* pending, resolves the call with list_created = true, whatever else the
\* payload carries.
C16_TitleCompletes ==
  (/\ session.st = "run"
   /\ session.last = "result"
   /\ session.wasPending
   /\ LastMessage.success
   /\ LastMessage.title)
  => (session.outcome = "resolved" /\ session.detail = "created")

\* C17: after auth_required, auth_invalid the call is rejected, no flow
\* command was sent, and ws.close() was called exactly once, also after the
\* close event and the timer.
C17_AuthInvalidFails ==
  (/\ session.st = "run"
   /\ session.inbox = <<Msg("auth_required", FALSE, FALSE, FALSE),
                        Msg("auth_invalid", FALSE, FALSE, FALSE)>>)
  => /\ session.outcome = "rejected"
     /\ session.closes = 1
     /\ \A i \in 1..Len(session.out) : session.out[i].type = "auth"

C17_ClosedOnceAfterAll ==
  /\ session.st = "run"
  /\ session.inbox = <<Msg("auth_required", FALSE, FALSE, FALSE),
                       Msg("auth_invalid", FALSE, FALSE, FALSE)>>
  /\ session.detail = "auth"
  /\ session.ready = "closed"
  /\ session.timer = "fired"
  /\ session.closes = 1

\* C18 as stated: auth_invalid and a result with success false resolve the
\* call with list_created = false; only transport errors and the deadline
\* reject it.
C18_ProtocolRejectionsResolve ==
  /\ (/\ session.st = "run"
      /\ session.wasPending
      /\ \/ session.last = "auth_invalid"
         \/ session.last = "result" /\ ~LastMessage.success)
     => (session.outcome = "resolved" /\ session.detail = "flow_failed")
  /\ (session.st = "run" /\ session.outcome = "rejected")
     => session.detail \in {"error", "closed", "timeout"}

\* C18 amended: a result with success false resolves the call with
\* list_created = false and never rejects it; auth_invalid rejects the call,
\* as do transport errors, a close before authentication and the deadline.
C18_FailedResultResolves ==
  /\ (/\ session.st = "run"
      /\ session.wasPending
      /\ session.last = "result"
      /\ ~LastMessage.success)
     => (session.outcome = "resolved" /\ session.detail = "flow_failed")
  /\ (session.st = "run" /\ session.wasPending /\ session.last = "auth_invalid")
     => (session.outcome = "rejected" /\ session.detail = "auth")
  /\ (session.st = "run" /\ session.outcome = "rejected")
     => session.detail \in {"auth", "error", "closed", "timeout"}
  /\ (session.st = "run" /\ session.outcome = "resolved")
     => session.detail \in {"created", "unexpected", "flow_failed"}

C18_FlowFailureResolved ==
  /\ session.st = "run"
  /\ session.last = "result"
  /\ session.wasPending
  /\ ~LastMessage.success
  /\ session.detail = "flow_failed"

\* C19: when the deadline fires before any inbound message, the call is
\* rejected and the connection is closed (closing or closed), whether it was
\* connecting or open.
C19_DeadlineClosesConnection ==
  (/\ session.st = "run"
   /\ session.timer = "fired"
   /\ session.inboundAtDeadline = 0)
  => (session.outcome = "rejected" /\ session.ready \in {"closing", "closed"})

\* C20: the call settles exactly once: once resolved or rejected its outcome
\* never changes, and with the timer firing it does not stay pending.
C20_SettlesExactlyOnce ==
  /\ [][session.outcome # "pending"
        => (session'.outcome = session.outcome
            /\ session'.detail = session.detail)]_vars
  /\ <>(session.outcome # "pending")

C20_SettledThenRejectedAgain ==
  /\ session.st = "run"
  /\ session.outcome = "resolved"
  /\ session.errored
  /\ session.timer = "fired"

\* C21: once the call has settled, the timer is no longer pending and the
\* connection is closing or closed.
C21_NothingOutlivesCall ==
  (session.st = "run" /\ session.outcome # "pending")
  => (session.timer # "armed" /\ session.ready \in {"closing", "closed"})

\* C22: ws.close() is called at most once in a session, whatever terminal
\* triggers follow one another; once called the connection is closing or
\* closed and a later cleanup leaves it alone.
C22_ClosedAtMostOnce ==
  session.st = "run"
  => /\ session.closes <= 1
     /\ session.closes = 1 => session.ready \in {"closing", "closed"}
     /\ session.ready = "closing" => session.closes = 1

C22_ThreeTriggersOneClose ==
  /\ session.st = "run"
  /\ session.outcome = "resolved"
  /\ session.errored
  /\ session.timer = "fired"
  /\ session.ready = "closing"
  /\ session.closes = 1

\* the id-bearing commands sent so far
Commands(s) == SelectSeq(s.out, LAMBDA o : o.type \in {"init", "configure"})

\* the result messages received so far
Results(s) == SelectSeq(s.inbox, LAMBDA m : m.type = "result")

\* C28: a result message that arrives while no command is outstanding (every
\* command sent was answered already) matches no id and changes nothing: no
\* message goes out and the session stays as it was.
C28_UnmatchedResultIgnored ==
  [][(/\ session.st = "run"
      /\ Len(session'.inbox) = Len(session.inbox) + 1
      /\ session'.inbox[Len(session'.inbox)].type = "result"
      /\ Len(Commands(session)) <= Len(Results(session)))
     => (/\ session'.out = session.out
         /\ session'.outcome = session.outcome
         /\ session'.messageId = session.messageId
         /\ session'.ready = session.ready)]_vars

\* C29: no config_entries/flow/init or config_entries/flow/configure goes
\* out before auth_ok was received.
C29_NoCommandBeforeAuthOk ==
  (session.st = "run" /\ Len(Commands(session)) > 0) => session.authenticated

\* C30: a close event rejects a pending call at once exactly when auth_ok
\* was not received; after auth_ok the call stays pending, nothing more is
\* sent on the closed connection, and the call is then settled only by the
\* deadline, which rejects it.
C30_CloseAfterAuthWaitsForDeadline ==
  /\ [](session.st = "run" /\ session.last = "close" /\ session.wasPending
        => IF session.authenticated
           THEN session.outcome = "pending" /\ session.timer = "armed"
           ELSE session.outcome = "rejected" /\ session.detail = "closed")
  /\ [][(session.st = "run" /\ session.ready = "closed")
        => /\ session'.out = session.out
           /\ (session.outcome = "pending" /\ session'.outcome # "pending")
              => (/\ session.authenticated
                  /\ session'.outcome = "rejected"
                  /\ session'.detail = "timeout"
                  /\ session'.timer = "fired")]_vars

C30_ClosedPendingThenTimedOut ==
  /\ session.st = "run"
  /\ session.authenticated
  /\ session.ready = "closed"
  /\ session.last = "timeout"
  /\ session.wasPending
  /\ session.detail = "timeout"
  /\ session.closes = 0

\* C23: in each session the commands that carry an id carry 1, 2, 3, ... in
\* the order they were sent, auth carries none, and this holds for each of
\* two sessions open at once: each counts from 1 whatever the other sent.
C23_IdsCountFromOne ==
  \A k \in DOMAIN pair :
    /\ \A i \in 1..Len(Commands(pair[k])) : Commands(pair[k])[i].id = i
    /\ \A i \in 1..Len(pair[k].out) :
         pair[k].out[i].type = "auth" <=> pair[k].out[i].id = 0

C23_BothCountFromOne ==
  /\ pair # NoPair
  /\ Commands(pair[1]) = <<Out("init", 1), Out("configure", 2)>>
  /\ Commands(pair[2]) = <<Out("init", 1)>>
  /\ pair[1].messageId = 3
  /\ pair[2].messageId = 2

\* C24: with several invocations in flight, the allowed invocations of one
\* window never exceed rateLimitMax and the stored count is the number of
\* invocations allowed in the window: no update of the entry is lost.
C24_NoLostUpdate ==
  (tasks # NoTasks /\ entry # NoEntry)
  => /\ last.n <= rateLimitMax
     /\ entry.count = last.n
     /\ entry.count <= rateLimitMax

C24_TwoInFlightCounted ==
  /\ tasks # NoTasks
  /\ tasks[1].st \in {"inflight", "delay"}
  /\ tasks[2].st \in {"inflight", "delay"}
  /\ tasks[1].att = 1
  /\ tasks[2].att = 1
  /\ entry.count = 2
  /\ last.n = 2

C26_SanitizeIdempotent ==
  call.tool = "text"
  => /\ call.st = "new" => ENABLED TextSanitize
     /\ call.st = "sanitized"
        => LET kept == {i \in 1..Len(call.a) : call.a[i] \notin Stripped}
           IN /\ call.again = call.clean
              /\ \A j \in 1..Len(call.clean) : call.clean[j] \notin Stripped
              /\ Len(call.clean) = Cardinality(kept)
              /\ \A i \in kept :
                   call.clean[Cardinality({x \in kept : x <= i})] = call.a[i]

C26_TwoStrippedOneKept ==
  /\ call.tool = "text"
  /\ call.st = "sanitized"
  /\ call.a = <<"<", "light", "&">>
  /\ call.clean = <<"light">>

\* C27: validateEntityId accepts exactly the strings made of one or more
\* characters of [a-z_], one dot, and one or more characters of [a-z0-9_];
\* it accepts light.living_room and automation.morning_routine and rejects
\* uppercase letters, an empty name part, a missing dot and <script>.
C27_EntityIdShape ==
  (call.tool = "text" /\ call.valid # "unknown")
  => LET id == call.a
         dots == {i \in 1..Len(id) : id[i] = "."}
         shaped ==
           /\ Cardinality(dots) = 1
           /\ \A d \in dots :
                /\ 1 < d /\ d < Len(id)
                /\ \A i \in 1..Len(id) :
                     /\ i < d => id[i] \in Words
                     /\ i > d => id[i] \in Words \cup Digits
     IN /\ call.valid = "yes" <=> shaped
        /\ id \in {<<"light", ".", "living_room">>,
                   <<"automation", ".", "morning_routine">>}
           => call.valid = "yes"
        /\ id \in {<<"A", "light", ".", "A", "living_room">>, <<"light", ".">>,
                   <<"light", "living_room">>,
                   <<"light", ".", "<", "script", ">">>}
           => call.valid = "no"

C27_AcceptedAndRejected ==
  /\ call.tool = "text"
  /\ call.valid = "no"
  /\ call.a = <<"light", ".", "<", "script", ">">>
  /\ call.st = "sanitized"
  /\ validateEntityId(call.clean)

====
